---- MODULE Spec2Model ----
(***************************************************************************)
(* ALVR macOS bridge: the shared-memory ring (shared_memory.rs), the HEVC  *)
(* encoder wrapper (encoder.rs) and the bridge loop (main.rs: run_bridge), *)
(* together with the producer on the other side of the ring and the        *)
(* streaming session's event channel.                                      *)
(***************************************************************************)
EXTENDS Integers, Sequences, FiniteSets, TLC

\* ---------------------------------------------------------------- bounds
MaxFrames == 2      \* frames the producer publishes in one run
MaxEvents == 2      \* session events delivered in one run
MaxDrops  == 3      \* increments of frames_dropped in one run
MaxRecords == 2     \* length-prefixed records in one encoded frame
MaxPayload == 4     \* bytes in one record's payload
MaxQueue == 1       \* frames the encoder holds back in a run that never ends
MaxKeyframes == 1   \* keyframes counted in a run that never ends
MaxDim == 3         \* the configured width and height, in pixels

\* --------------------------------------------------- program constants
NUM_BUFFERS == 3
Empty    == 0
Writing  == 1
Ready    == 2
Encoding == 3
SHM_MAGIC   == 1095520850      \* 0x414C5652
SHM_VERSION == 1
MAX_WIDTH  == 4096
MAX_HEIGHT == 2048
BYTES_PER_PIXEL == 4
MAX_FRAME_SIZE == MAX_WIDTH * MAX_HEIGHT * BYTES_PER_PIXEL

Buffers == 0 .. (NUM_BUFFERS - 1)
NoBuf   == NUM_BUFFERS         \* "no buffer": the Option is None

\* ------------------------------------------------- u64 arithmetic
\* A u64 is four 16-bit limbs, least significant first.
LimbBase == 2 ^ 16
U64Zero  == <<0, 0, 0, 0>>
U64Max   == <<LimbBase - 1, LimbBase - 1, LimbBase - 1, LimbBase - 1>>

\* a statistics counter whose value a specification does not follow (the
\* counters only ever feed log lines): adding to it leaves it not followed
U64Untracked == <<-1, -1, -1, -1>>

\* u64::wrapping_add(x, 1), with the carry rippling through the limbs
wrapping_add_1(x) ==
    IF x = U64Untracked THEN x
    ELSE IF x[1] < LimbBase - 1 THEN <<x[1] + 1, x[2], x[3], x[4]>>
    ELSE IF x[2] < LimbBase - 1 THEN <<0, x[2] + 1, x[3], x[4]>>
    ELSE IF x[3] < LimbBase - 1 THEN <<0, 0, x[3] + 1, x[4]>>
    ELSE IF x[4] < LimbBase - 1 THEN <<0, 0, 0, x[4] + 1>>
    ELSE U64Zero

\* a test for "changed" in place of "greater"
U64Ne(a, b) == a # b

\* a > b on u64
U64Gt(a, b) ==
    \/ a[4] > b[4]
    \/ a[4] = b[4] /\ a[3] > b[3]
    \/ a[4] = b[4] /\ a[3] = b[3] /\ a[2] > b[2]
    \/ a[4] = b[4] /\ a[3] = b[3] /\ a[2] = b[2] /\ a[1] > b[1]

\* a - b modulo 2^64, limb by limb with the borrow
U64Sub(a, b) ==
    LET d1 == a[1] - b[1]
        w1 == IF d1 < 0 THEN 1 ELSE 0
        d2 == a[2] - b[2] - w1
        w2 == IF d2 < 0 THEN 1 ELSE 0
        d3 == a[3] - b[3] - w2
        w3 == IF d3 < 0 THEN 1 ELSE 0
        d4 == a[4] - b[4] - w3
    IN <<d1 % LimbBase, d2 % LimbBase, d3 % LimbBase, d4 % LimbBase>>

\* a + b modulo 2^64, limb by limb with the carry
U64Add(a, b) ==
    LET s1 == a[1] + b[1]
        s2 == a[2] + b[2] + (s1 \div LimbBase)
        s3 == a[3] + b[3] + (s2 \div LimbBase)
        s4 == a[4] + b[4] + (s3 \div LimbBase)
    IN <<s1 % LimbBase, s2 % LimbBase, s3 % LimbBase, s4 % LimbBase>>

VARIABLES
    \* the memory-mapped ring
    state,      \* frame_headers[i].state, the atomic state word of each buffer
    pix,        \* the pixel region of each buffer (a frame's content)
    meta,       \* frame_headers[i]'s non-atomic metadata
    header,     \* SharedMemoryHeader's scalar fields
    \* the producer process
    ppc, pbuf, pframe, ndrops,
    published,  \* per buffer, what the producer had written at its last Writing->Ready store
    \* the session's event channel
    events, nevents,
    \* run_bridge's locals
    pc, acq_i, buffer_idx, frame_copy,
    client_connected, force_idr, frames_dropped_by_wine, frames_processed,
    \* HevcEncoder
    config_sent, enc_queue,
    y_plane, u_plane, v_plane,   \* the pre-allocated I420 planes
    bgra,             \* the bgra_data handed to bgra_to_i420, a pixel per entry
    avcc_records,     \* the payloads of the well-formed records of an
                      \* EncodedFrame's data, in order
    avcc_tail,        \* the bytes of that data after the well-formed records
    nal_data,         \* avcc_to_annexb's output
    convert_loop,     \* bgra_to_i420's loop: where it stands ("idle", "loop" at
                      \* row y and column x, "done", "panicked") and the
                      \* indices of its last iteration: the highest index
                      \* read from bgra, the index written in y_plane and
                      \* the one written in u_plane and v_plane (-1: none)
    \* the session and the encoder as the bridge has used them
    nal_sent,         \* the send_video_nal call of the bridge step just taken
    config_calls,     \* how many times set_video_config_nals has been called
    last_conn_event,  \* the last ClientConnected/ClientDisconnected received
    keyframes_out,    \* how many keyframes encode_frame has returned
    last_result,      \* what encode_frame returned in the bridge step just taken
    flush_log,        \* what encoder.flush() returned and what was forwarded
    stream_phase,     \* where the stream to the client stands: "no_client"
                      \* (no ClientConnected handled yet), "idle",
                      \* "streaming" (the last output went out, a non-keyframe),
                      \* "disconnected" (ClientDisconnected handled since),
                      \* "reconnected" (ClientConnected handled after that)
    idr_demand,       \* the IDR demand not yet answered by an encoder output:
                      \* "latch" (the loop's start, a ClientConnected or a
                      \* RequestIDR handled by the loop), "hint" (only an
                      \* acquired frame's is_idr), "none"
    idr_passed        \* the force_idr argument of the encode_frame call of the
                      \* bridge step just taken: "forced", "plain", or "none"
VARIABLES
    \* the log
    drop_warning,     \* the "Wine dropped {} frames" warning of the last drop check
    warned_total      \* the sum of the numbers those warnings have reported

ring     == <<state, pix, meta, header>>
producer == <<ppc, pbuf, pframe, ndrops, published>>
channel  == <<events, nevents>>
bridge   == <<pc, acq_i, buffer_idx, frame_copy, client_connected, force_idr,
              frames_dropped_by_wine, frames_processed>>
conversion == <<y_plane, u_plane, v_plane, bgra, avcc_records, avcc_tail, nal_data,
                convert_loop>>
encoder  == <<config_sent, enc_queue, conversion>>
session  == <<nal_sent, config_calls, last_conn_event, keyframes_out,
              last_result, flush_log, stream_phase, idr_demand, idr_passed>>
logged   == <<drop_warning, warned_total>>
vars     == <<ring, producer, channel, bridge, encoder, session, logged>>

\* ------------------------------------------------------- data shapes
ZeroMeta == [width |-> 0, height |-> 0, stride |-> 0,
             timestamp_ns |-> 0, frame_number |-> 0, is_idr |-> 0]
NoSend   == [phase |-> "none", timestamp |-> 0, frame |-> 0,
             is_keyframe |-> FALSE, conn |-> "none"]
NoFlush  == [called |-> FALSE, ok |-> FALSE, outputs |-> 0, keyframes |-> 0,
             forwarded |-> 0]
NoWarning == [logged |-> FALSE, delta |-> U64Zero]
EventKinds == {"ClientConnected", "ClientDisconnected", "RequestIDR", "Other"}

\* SharedMemory::create: the header as written before the struct is returned
CreatedHeader ==
    [magic |-> SHM_MAGIC, version |-> SHM_VERSION, initialized |-> 1,
     shutdown |-> 0, config_width |-> 0, config_height |-> 0,
     config_format |-> 0, config_set |-> 0,
     write_sequence |-> U64Zero, read_sequence |-> U64Zero,
     frames_written |-> U64Zero, frames_encoded |-> U64Zero,
     frames_dropped |-> U64Zero]

\* from_raw with two fields mixed up
from_raw_mixed(raw) ==
    [width |-> raw.width, height |-> raw.height, stride |-> raw.stride,
     timestamp_ns |-> raw.frame_number, frame_number |-> raw.frame_number,
     is_idr |-> raw.is_idr]

\* FrameHeader::from_raw: the by-value copy of a buffer's metadata
from_raw(raw) ==
    [width |-> raw.width, height |-> raw.height, stride |-> raw.stride,
     timestamp_ns |-> raw.timestamp_ns, frame_number |-> raw.frame_number,
     is_idr |-> raw.is_idr]

\* size_of::<SharedMemoryHeader>(): 8 u32, 5 u64, 64 reserved bytes and
\* NUM_BUFFERS frame headers of 88 bytes
header_size == 8 * 4 + 5 * 8 + 64 + NUM_BUFFERS * 88

\* frame_offset(buffer_index): the pixel regions follow the page-aligned header
frame_offset(buffer_index) ==
    ((header_size + 4095) \div 4096) * 4096 + buffer_index * MAX_FRAME_SIZE

\* total_size(): the length of the mapping
total_size == frame_offset(NUM_BUFFERS)

\* try_acquire_frame: frame_size, the length of the pixel slice
frame_size(frame) == frame.height * frame.stride

NoConvert == [at |-> "idle", y |-> 0, x |-> 0, read_to |-> -1, y_at |-> -1, uv_at |-> -1]

\* HevcEncoder::new: the planes are allocated zeroed for the configured 2x2
\* picture; nothing has been converted or reformatted
ConversionIdle ==
    /\ y_plane = <<0, 0, 0, 0>>
    /\ u_plane = <<0>>
    /\ v_plane = <<0>>
    /\ bgra = <<>>
    /\ avcc_records = <<>>
    /\ avcc_tail = <<>>
    /\ nal_data = <<>>
    /\ convert_loop = NoConvert

\* the loop starts with an IDR demanded (force_idr = true) and no
\* encode_frame call made
IdrWatchIdle ==
    /\ idr_demand = "latch"
    /\ idr_passed = "none"

\* ------------------------------------------------------------ Init
\* The state when run_bridge has created the ring (main.rs:46) and nothing
\* else has happened: every buffer Empty, the counters zero, initialized = 1.
Init ==
    /\ state = [i \in Buffers |-> Empty]
    /\ pix = [i \in Buffers |-> 0]
    /\ meta = [i \in Buffers |-> ZeroMeta]
    /\ header = CreatedHeader
    /\ ppc = "config"
    /\ pbuf = NoBuf
    /\ pframe = 0
    /\ ndrops = 0
    /\ published = [i \in Buffers |-> [pix |-> 0, meta |-> ZeroMeta]]
    /\ events = <<>>
    /\ nevents = 0
    /\ pc = "wait_config"
    /\ acq_i = 0
    /\ buffer_idx = NoBuf
    /\ frame_copy = ZeroMeta
    /\ client_connected = FALSE
    /\ force_idr = TRUE
    /\ frames_dropped_by_wine = U64Zero
    /\ frames_processed = U64Zero
    /\ config_sent = FALSE
    /\ enc_queue = <<>>
    /\ ConversionIdle
    /\ nal_sent = NoSend
    /\ config_calls = 0
    /\ last_conn_event = "none"
    /\ keyframes_out = 0
    /\ last_result = "none"
    /\ flush_log = NoFlush
    /\ stream_phase = "no_client"
    /\ IdrWatchIdle
    /\ drop_warning = NoWarning
    /\ warned_total = U64Zero

\* A run is followed until run_bridge returns.
BridgeRunning == pc # "done"

\* ------------------------------------------------------- the producer
\* The producer contract: publish the configuration, then for each frame
\* CAS Empty -> Writing, fill pixels and metadata, store Ready.

\* write config_width / config_height / config_format
P_WriteConfig ==
    /\ BridgeRunning
    /\ ppc = "config"
    /\ header' = [header EXCEPT !.config_width = 2, !.config_height = 2,
                                !.config_format = 1]
    /\ ppc' = "config_set"
    /\ UNCHANGED <<state, pix, meta, pbuf, pframe, ndrops, published>>
    /\ UNCHANGED <<channel, bridge, encoder, session, logged>>

\* set config_set = 1
P_SetConfig ==
    /\ BridgeRunning
    /\ ppc = "config_set"
    /\ header' = [header EXCEPT !.config_set = 1]
    /\ ppc' = "idle"
    /\ UNCHANGED <<state, pix, meta, pbuf, pframe, ndrops, published>>
    /\ UNCHANGED <<channel, bridge, encoder, session, logged>>

\* CAS Empty -> Writing on some buffer; a buffer in any other state is unavailable
P_Begin ==
    /\ BridgeRunning
    /\ ppc = "idle"
    /\ pframe < MaxFrames
    /\ \E i \in Buffers :
          /\ state[i] = Empty
          /\ state' = [state EXCEPT ![i] = Writing]
          /\ pbuf' = i
    /\ ppc' = "fill"
    /\ UNCHANGED <<pix, meta, header, pframe, ndrops, published>>
    /\ UNCHANGED <<channel, bridge, encoder, session, logged>>

\* fill the buffer's pixel bytes and metadata: the picture has the configured
\* size, rows of width * BYTES_PER_PIXEL bytes; frame number pframe + 1 is the
\* content, 10 + pframe + 1 its capture timestamp; the producer chooses the
\* IDR hint
P_Fill ==
    /\ BridgeRunning
    /\ ppc = "fill"
    /\ pix' = [pix EXCEPT ![pbuf] = pframe + 1]
    /\ \E idr \in {0, 1} :
          meta' = [meta EXCEPT ![pbuf] =
                     [width |-> header.config_width,
                      height |-> header.config_height,
                      stride |-> header.config_width * BYTES_PER_PIXEL,
                      timestamp_ns |-> 10 + pframe + 1,
                      frame_number |-> pframe + 1, is_idr |-> idr]]
    /\ ppc' = "publish"
    /\ UNCHANGED <<state, header, pbuf, pframe, ndrops, published>>
    /\ UNCHANGED <<channel, bridge, encoder, session, logged>>

\* store state <- Ready (release), and count the frame
P_Publish ==
    /\ BridgeRunning
    /\ ppc = "publish"
    /\ state' = [state EXCEPT ![pbuf] = Ready]
    /\ header' = [header EXCEPT
                    !.frames_written = wrapping_add_1(@),
                    !.write_sequence = wrapping_add_1(@)]
    /\ published' = [published EXCEPT ![pbuf] = [pix |-> pix[pbuf], meta |-> meta[pbuf]]]
    /\ pframe' = pframe + 1
    /\ pbuf' = NoBuf
    /\ ppc' = "idle"
    /\ UNCHANGED <<pix, meta, ndrops>>
    /\ UNCHANGED <<channel, bridge, encoder, session, logged>>

\* a producer that never stops: the same two steps, CAS Empty -> Writing and
\* store Ready, for a frame that is not counted against MaxFrames
P_BeginAgain ==
    /\ BridgeRunning
    /\ ppc = "idle"
    /\ \E i \in Buffers :
          /\ state[i] = Empty
          /\ state' = [state EXCEPT ![i] = Writing]
          /\ pbuf' = i
    /\ ppc' = "fill"
    /\ UNCHANGED <<pix, meta, header, pframe, ndrops, published>>
    /\ UNCHANGED <<channel, bridge, encoder, session, logged>>

P_PublishAgain ==
    /\ BridgeRunning
    /\ ppc = "publish"
    /\ state' = [state EXCEPT ![pbuf] = Ready]
    /\ header' = [header EXCEPT
                    !.frames_written = wrapping_add_1(@),
                    !.write_sequence = wrapping_add_1(@)]
    /\ published' = [published EXCEPT ![pbuf] = [pix |-> pix[pbuf], meta |-> meta[pbuf]]]
    /\ pbuf' = NoBuf
    /\ ppc' = "idle"
    /\ UNCHANGED <<pix, meta, pframe, ndrops>>
    /\ UNCHANGED <<channel, bridge, encoder, session, logged>>

\* count a frame the producer could not place (the counter is telemetry; the
\* runs that exercise it are those of the drop-accounting specification)
P_Drop ==
    /\ BridgeRunning
    /\ ppc = "idle"
    /\ ndrops < MaxDrops
    /\ header' = [header EXCEPT !.frames_dropped = wrapping_add_1(@)]
    /\ ndrops' = ndrops + 1
    /\ UNCHANGED <<state, pix, meta, ppc, pbuf, pframe, published>>
    /\ UNCHANGED <<channel, bridge, encoder, session, logged>>

\* the producer requests teardown
P_Shutdown ==
    /\ BridgeRunning
    /\ ppc \notin {"config", "config_set"}
    /\ header.shutdown = 0
    /\ header' = [header EXCEPT !.shutdown = 1]
    /\ UNCHANGED <<state, pix, meta>>
    /\ UNCHANGED <<producer, channel, bridge, encoder, session, logged>>

\* ----------------------------------------------- the session's events
\* The streaming runtime puts an event on the channel.
SessionEvent ==
    /\ BridgeRunning
    /\ nevents < MaxEvents
    /\ pc # "wait_config"
    /\ \E e \in EventKinds : events' = Append(events, e)
    /\ nevents' = nevents + 1
    /\ UNCHANGED <<ring, producer, bridge, encoder, session, logged>>

\* ------------------------------------------------ the ring's operations
\* an unconditional swap in place of the compare-exchange
compare_exchange_swap(st, i, expected, new) ==
    [ok |-> st[i] = expected, state |-> [st EXCEPT ![i] = new]]

\* AtomicU32::compare_exchange on buffer i's state word
compare_exchange(st, i, expected, new) ==
    IF st[i] = expected
    THEN [ok |-> TRUE,  state |-> [st EXCEPT ![i] = new]]
    ELSE [ok |-> FALSE, state |-> st]

\* a CAS that takes a buffer the producer is still writing
acquire_expected_writing == Writing

\* try_acquire_frame's CAS operands
acquire_expected == Ready
acquire_new      == Encoding

\* a scan from the last buffer down
scan_index_reversed(k) == NUM_BUFFERS - 1 - k

\* try_acquire_frame's scan: the k-th buffer tried by `for i in 0..NUM_BUFFERS`
scan_index(k) == k

\* a release that hands the buffer back as Ready
release_state_ready == Ready

\* release_frame: the state word stored
release_state == Empty

\* a release whose statistics saturate instead of wrapping
release_frame_saturating(st, h, idx) ==
    [state  |-> [st EXCEPT ![idx] = release_state],
     header |-> [h EXCEPT
                   !.frames_encoded = IF @ = U64Max THEN @ ELSE wrapping_add_1(@),
                   !.read_sequence  = IF @ = U64Max THEN @ ELSE wrapping_add_1(@)]]

\* release_frame(buffer_index): store Empty, then bump the two statistics
release_frame(st, h, idx) ==
    [state  |-> [st EXCEPT ![idx] = release_state],
     header |-> [h EXCEPT !.frames_encoded = wrapping_add_1(@),
                          !.read_sequence  = wrapping_add_1(@)]]

\* whether `&self.mmap[offset..offset + frame_size]` is inside the mapping
slice_in_mapping(i, frame) == frame_offset(i) + frame_size(frame) <= total_size

\* a flag flipped instead of set
shm_shutdown_toggle(h) == [h EXCEPT !.shutdown = 1 - @]

\* SharedMemory::shutdown, also run by Drop
shm_shutdown(h) == [h EXCEPT !.shutdown = 1]

\* SharedMemory::is_configured
is_configured(h) == h.config_set # 0

\* ------------------------------------------------ the bridge's decisions
\* a loop that never looks at the flag
shutdown_requested_never(h) == FALSE

\* the loop's shutdown test
shutdown_requested(h) == h.shutdown # 0

\* the connect wait's match on an event: the new client_connected
connect_wait_event(e, cc) ==
    IF e = "ClientConnected" THEN TRUE ELSE cc

\* a match that forgets the ClientDisconnected arm
handle_event_no_disconnect(e, cc, fi) ==
    CASE e = "ClientConnected"    -> [client_connected |-> TRUE,  force_idr |-> TRUE]
      [] e = "RequestIDR"         -> [client_connected |-> cc,    force_idr |-> TRUE]
      [] OTHER                    -> [client_connected |-> cc,    force_idr |-> fi]

\* the steady-state loop's match on an event: the new (client_connected, force_idr)
handle_event(e, cc, fi) ==
    CASE e = "ClientConnected"    -> [client_connected |-> TRUE,  force_idr |-> TRUE]
      [] e = "ClientDisconnected" -> [client_connected |-> FALSE, force_idr |-> fi]
      [] e = "RequestIDR"         -> [client_connected |-> cc,    force_idr |-> TRUE]
      [] OTHER                    -> [client_connected |-> cc,    force_idr |-> fi]

\* the most recent connect/disconnect event taken off the channel
conn_event_after(e, last) ==
    IF e \in {"ClientConnected", "ClientDisconnected"} THEN e ELSE last

\* the stream's standing after an event taken off the channel
stream_phase_after_event(e, ph) ==
    CASE e = "ClientConnected" /\ ph = "no_client" -> "idle"
      [] e = "ClientDisconnected" /\ ph \in {"streaming", "reconnected"} -> "disconnected"
      [] e = "ClientConnected" /\ ph = "disconnected" -> "reconnected"
      [] OTHER -> ph

\* the stream's standing after the match on encode_frame's result
stream_phase_after_result(kind, sent, keyframe, ph) ==
    IF kind # "Some" THEN ph
    ELSE IF sent /\ ~keyframe THEN "streaming"
    ELSE IF ph \in {"no_client", "disconnected"} THEN ph
    ELSE "idle"

\* the IDR demand after the loop's match on an event
idr_demand_after_event(e, d) ==
    IF e \in {"ClientConnected", "RequestIDR"} THEN "latch" ELSE d

\* the IDR demand after try_acquire_frame has returned a frame
idr_demand_after_acquire(frame, d) ==
    IF frame.is_idr # 0 /\ d = "none" THEN "hint" ELSE d

\* the IDR demand after the match on encode_frame's result
idr_demand_after_result(kind, d) ==
    IF kind = "Some" THEN "none" ELSE d

\* an argument that forgets the latch
idr_argument_hint_only(fi, frame) == frame.is_idr # 0

\* the second argument of the encode_frame call
idr_argument(fi, frame) == fi \/ frame.is_idr # 0

\* parameter sets sent with every keyframe
should_send_config_always(out, sent) ==
    out.is_keyframe /\ out.config_nals

\* whether an output's parameter sets go to set_video_config_nals
should_send_config(out, sent) ==
    out.is_keyframe /\ out.config_nals /\ ~sent

\* outputs handed to send_video_nal whether or not a client is there
should_send_nal_always(cc) == TRUE

\* whether an output is handed to send_video_nal
should_send_nal(cc) == cc

\* an encoder error propagated out of run_bridge with `?`
after_encode_err_exits(kind) == IF kind = "Err" THEN "done" ELSE "release"

\* where the loop goes after the match on encode_frame's result: every arm
\* falls through to release_frame
after_encode(kind) == "release"

\* a latch cleared after every encode call that did not fail
force_idr_after_any_ok(kind, fi) ==
    IF kind \in {"Some", "None"} THEN FALSE ELSE fi

\* force_idr after the match on encode_frame's result
force_idr_after(kind, fi) ==
    IF kind = "Some" THEN FALSE ELSE fi

\* ------------------------------------------------------- the encoder
NoOut == [frame |-> 0, is_keyframe |-> FALSE, config_nals |-> FALSE]

\* process_encoded_frame: config_nals is Some exactly on a keyframe
process_encoded_frame(frame, keyframe) ==
    [frame |-> frame, is_keyframe |-> keyframe, config_nals |-> keyframe]

\* encode_frame(pixels, force_idr): every result the call can have, with the
\* encoder's queue of submitted frames after it.  The hardware encoder decides
\* whether encode() fails, whether next_frame() has a frame yet, and whether
\* that frame is a keyframe; frames leave in submission order (no reordering).
\* The force_idr argument is not used by the function.
encode_frame(q, pixels, idr) ==
    LET submitted == Append(q, pixels) IN
      {[kind |-> "Err", queue |-> q, out |-> NoOut]}
      \cup {[kind |-> "None", queue |-> submitted, out |-> NoOut]}
      \cup {[kind |-> "Some", queue |-> Tail(submitted),
             out |-> process_encoded_frame(Head(submitted), k)] : k \in BOOLEAN}

\* ------------------------------------------- bgra_to_i420
\* a division that rounds toward zero in place of the arithmetic shift
shr8_trunc(x) == IF x >= 0 THEN x \div 256 ELSE -((-x) \div 256)

\* `>> 8` on an i32: the arithmetic shift rounds toward minus infinity
shr8(x) == x \div 256

\* i32::clamp(0, 255)
clamp_u8(x) == IF x < 0 THEN 0 ELSE IF x > 255 THEN 255 ELSE x

\* the BT.601 conversion of one pixel
y_val(p) == shr8(66 * p.r + 129 * p.g + 25 * p.b + 128) + 16
u_val(p) == shr8(-38 * p.r - 74 * p.g + 112 * p.b + 128) + 128
v_val(p) == shr8(112 * p.r - 94 * p.g - 18 * p.b + 128) + 128

\* the pixel at row y, column x of a picture w wide (bgra[idx .. idx + 3])
pixel_at(img, w, y, x) == img[y * w + x + 1]

\* bgra_to_i420 on a w x h picture: a luma sample per pixel; a chroma sample
\* per 2x2 block, taken from the block's pixel at even y and even x
bgra_to_i420(img, w, h) ==
    [y_plane |-> [k \in 1 .. (w * h) |->
                    clamp_u8(y_val(pixel_at(img, w, (k - 1) \div w, (k - 1) % w)))],
     u_plane |-> [j \in 1 .. ((w * h) \div 4) |->
                    clamp_u8(u_val(pixel_at(img, w, 2 * ((j - 1) \div (w \div 2)),
                                            2 * ((j - 1) % (w \div 2)))))],
     v_plane |-> [j \in 1 .. ((w * h) \div 4) |->
                    clamp_u8(v_val(pixel_at(img, w, 2 * ((j - 1) \div (w \div 2)),
                                            2 * ((j - 1) % (w \div 2)))))]]

\* HevcEncoder::new: the sizes of the planes
y_size(width, height) == width * height
uv_size(width, height) == y_size(width, height) \div 4

\* bgra_to_i420: the indices of the iteration at row y, column x
bgra_index(w, y, x) == (y * w + x) * 4
y_index(w, y, x) == y * w + x
uv_index(w, y, x) == (y \div 2) * (w \div 2) + (x \div 2)

\* ------------------------------------------- avcc_to_annexb
\* Annex-B NAL start code
NAL_START_CODE == <<0, 0, 0, 1>>

\* the prefix read least significant byte first
from_le_bytes(b) == ((b[4] * 256 + b[3]) * 256 + b[2]) * 256 + b[1]

\* u32::from_be_bytes on the four bytes of a length prefix
from_be_bytes(b) == ((b[1] * 256 + b[2]) * 256 + b[3]) * 256 + b[4]

\* a conversion that gives up everything when a length is invalid
on_invalid_length_discard(out) == <<>>

\* the `break` on an invalid length: what has been written so far is returned
on_invalid_length(out) == out

\* the `while offset + 4 <= avcc_data.len()` loop, from byte offset `offset`
\* with `annexb` written so far
RECURSIVE avcc_loop(_, _, _)
avcc_loop(avcc_data, offset, annexb) ==
    IF offset + 4 <= Len(avcc_data)
    THEN LET nal_len == from_be_bytes(SubSeq(avcc_data, offset + 1, offset + 4))
             off     == offset + 4
         IN IF off + nal_len > Len(avcc_data)
            THEN on_invalid_length(annexb)
            ELSE avcc_loop(avcc_data, off + nal_len,
                           annexb \o NAL_START_CODE
                                  \o SubSeq(avcc_data, off + 1, off + nal_len))
    ELSE annexb

\* avcc_to_annexb(avcc_data)
avcc_to_annexb(avcc_data) == avcc_loop(avcc_data, 0, <<>>)

\* --------------------------------------------------- run_bridge: startup
\* `while !shm.is_configured()` ends, the encoder and the session are created
WaitConfigDone ==
    /\ pc = "wait_config"
    /\ is_configured(header)
    /\ pc' = "connect_wait"
    /\ UNCHANGED <<acq_i, buffer_idx, frame_copy, client_connected, force_idr,
                   frames_dropped_by_wine, frames_processed>>
    /\ UNCHANGED <<ring, producer, channel, encoder, session, logged>>

\* the 120 s timeout passes unconfigured, or HevcEncoder::new fails once
\* configured: run_bridge returns Err and the ring is dropped
StartupFails ==
    /\ pc = "wait_config"
    /\ pc' = "done"
    /\ header' = shm_shutdown(header)
    /\ UNCHANGED <<state, pix, meta>>
    /\ UNCHANGED <<acq_i, buffer_idx, frame_copy, client_connected, force_idr,
                   frames_dropped_by_wine, frames_processed>>
    /\ UNCHANGED <<producer, channel, encoder, session, logged>>

\* connect wait: the producer asked for shutdown; return Ok(()), ring dropped
ConnectWaitShutdown ==
    /\ pc = "connect_wait"
    /\ shutdown_requested(header)
    /\ pc' = "done"
    /\ header' = shm_shutdown(header)
    /\ UNCHANGED <<state, pix, meta>>
    /\ UNCHANGED <<acq_i, buffer_idx, frame_copy, client_connected, force_idr,
                   frames_dropped_by_wine, frames_processed>>
    /\ UNCHANGED <<producer, channel, encoder, session, logged>>

\* connect wait: recv_timeout yields an event
ConnectWaitEvent ==
    /\ pc = "connect_wait"
    /\ events # <<>>
    /\ LET e == Head(events)
           cc == connect_wait_event(e, client_connected) IN
         /\ client_connected' = cc
         /\ last_conn_event' = conn_event_after(e, last_conn_event)
         /\ stream_phase' = stream_phase_after_event(e, stream_phase)
         /\ pc' = IF cc THEN "check" ELSE "connect_wait"
    /\ UNCHANGED <<idr_demand, idr_passed>>
    /\ events' = Tail(events)
    /\ UNCHANGED <<nevents, acq_i, buffer_idx, frame_copy, force_idr,
                   frames_dropped_by_wine, frames_processed>>
    /\ UNCHANGED <<nal_sent, config_calls, keyframes_out, last_result, flush_log>>
    /\ UNCHANGED <<ring, producer, encoder, logged>>

\* connect wait: 60 s have passed without a ClientConnected; continue anyway
ConnectWaitTimeout ==
    /\ pc = "connect_wait"
    /\ pc' = "check"
    /\ UNCHANGED <<acq_i, buffer_idx, frame_copy, client_connected, force_idr,
                   frames_dropped_by_wine, frames_processed>>
    /\ UNCHANGED <<ring, producer, channel, encoder, session, logged>>

\* ------------------------------------------- run_bridge: the steady-state loop
\* top of the loop: `if shm.header().shutdown != 0 { break; }`
ShutdownCheck ==
    /\ pc = "check"
    /\ pc' = IF shutdown_requested(header) THEN "flush" ELSE "drain"
    /\ UNCHANGED <<acq_i, buffer_idx, frame_copy, client_connected, force_idr,
                   frames_dropped_by_wine, frames_processed>>
    /\ UNCHANGED <<ring, producer, channel, encoder, session, logged>>

\* `while let Ok(event) = event_receiver.try_recv()`: one event handled
DrainEvent ==
    /\ pc = "drain"
    /\ events # <<>>
    /\ LET e == Head(events)
           r == handle_event(e, client_connected, force_idr) IN
         /\ client_connected' = r.client_connected
         /\ force_idr' = r.force_idr
         /\ last_conn_event' = conn_event_after(e, last_conn_event)
         /\ stream_phase' = stream_phase_after_event(e, stream_phase)
         /\ idr_demand' = idr_demand_after_event(e, idr_demand)
    /\ UNCHANGED idr_passed
    /\ events' = Tail(events)
    /\ UNCHANGED <<nevents, pc, acq_i, buffer_idx, frame_copy,
                   frames_dropped_by_wine, frames_processed>>
    /\ UNCHANGED <<nal_sent, config_calls, keyframes_out, last_result, flush_log>>
    /\ UNCHANGED <<ring, producer, encoder, logged>>

\* try_recv finds the channel empty; try_acquire_frame is entered
DrainDone ==
    /\ pc = "drain"
    /\ events = <<>>
    /\ pc' = "acquire"
    /\ acq_i' = 0
    /\ UNCHANGED <<buffer_idx, frame_copy, client_connected, force_idr,
                   frames_dropped_by_wine, frames_processed>>
    /\ UNCHANGED <<ring, producer, channel, encoder, session, logged>>

\* try_acquire_frame: one iteration of the scan, a CAS on one buffer; on
\* success the metadata is copied, the pixel slice of height * stride bytes is
\* taken at the buffer's offset, and Some((i, header, pixels)) returned.  The
\* slice expression panics when its end is past the mapping: run_bridge
\* unwinds, the ring is dropped, the buffer stays Encoding.
AcquireCas ==
    /\ pc = "acquire"
    /\ acq_i < NUM_BUFFERS
    /\ LET i == scan_index(acq_i)
           r == compare_exchange(state, i, acquire_expected, acquire_new) IN
         /\ state' = r.state
         /\ IF r.ok /\ slice_in_mapping(i, from_raw(meta[i]))
            THEN /\ buffer_idx' = i
                 /\ frame_copy' = from_raw(meta[i])
                 /\ idr_demand' = idr_demand_after_acquire(from_raw(meta[i]), idr_demand)
                 /\ pc' = "encode"
                 /\ acq_i' = 0
                 /\ UNCHANGED header
            ELSE IF r.ok
            THEN /\ pc' = "done"
                 /\ header' = shm_shutdown(header)
                 /\ UNCHANGED <<buffer_idx, frame_copy, acq_i, idr_demand>>
            ELSE /\ acq_i' = acq_i + 1
                 /\ UNCHANGED <<buffer_idx, frame_copy, pc, header, idr_demand>>
    /\ UNCHANGED <<pix, meta>>
    /\ UNCHANGED <<client_connected, force_idr, frames_dropped_by_wine,
                   frames_processed>>
    /\ UNCHANGED <<nal_sent, config_calls, last_conn_event, keyframes_out,
                   last_result, flush_log, stream_phase, idr_passed>>
    /\ UNCHANGED <<producer, channel, encoder, logged>>

\* try_acquire_frame: the scan is over, None is returned; the loop sleeps
AcquireNone ==
    /\ pc = "acquire"
    /\ acq_i = NUM_BUFFERS
    /\ pc' = "drop_check"
    /\ acq_i' = 0
    /\ UNCHANGED <<buffer_idx, frame_copy, client_connected, force_idr,
                   frames_dropped_by_wine, frames_processed>>
    /\ UNCHANGED <<ring, producer, channel, encoder, session, logged>>

\* encode_frame on the acquired pixels, and the match on its result
EncodeFrame ==
    /\ pc = "encode"
    /\ idr_passed' = IF idr_argument(force_idr, frame_copy) THEN "forced" ELSE "plain"
    /\ \E r \in encode_frame(enc_queue, pix[buffer_idx],
                             idr_argument(force_idr, frame_copy)) :
         LET cfg == r.kind = "Some" /\ should_send_config(r.out, config_sent)
             snd == r.kind = "Some" /\ should_send_nal(client_connected) IN
           /\ enc_queue' = r.queue
           /\ config_calls' = IF cfg THEN config_calls + 1 ELSE config_calls
           /\ config_sent' = (config_sent \/ cfg)
           /\ nal_sent' = IF snd
                          THEN [phase |-> "loop",
                                 timestamp |-> frame_copy.timestamp_ns,
                                 frame |-> r.out.frame,
                                 is_keyframe |-> r.out.is_keyframe,
                                 conn |-> last_conn_event]
                          ELSE NoSend
           /\ keyframes_out' = IF r.kind = "Some" /\ r.out.is_keyframe
                               THEN keyframes_out + 1 ELSE keyframes_out
           /\ last_result' = r.kind
           /\ stream_phase' = stream_phase_after_result(r.kind, snd,
                                                        r.out.is_keyframe, stream_phase)
           /\ force_idr' = force_idr_after(r.kind, force_idr)
           /\ idr_demand' = idr_demand_after_result(r.kind, idr_demand)
           /\ pc' = after_encode(r.kind)
    /\ UNCHANGED <<acq_i, buffer_idx, frame_copy, client_connected,
                   frames_dropped_by_wine, frames_processed>>
    /\ UNCHANGED <<last_conn_event, flush_log>>
    /\ UNCHANGED <<ring, producer, channel, logged, conversion>>

\* shm.release_frame(buffer_idx); frames_processed += 1
ReleaseFrame ==
    /\ pc = "release"
    /\ LET r == release_frame(state, header, buffer_idx) IN
         /\ state' = r.state
         /\ header' = r.header
    /\ frames_processed' = wrapping_add_1(frames_processed)
    /\ buffer_idx' = NoBuf
    /\ frame_copy' = ZeroMeta
    /\ pc' = "drop_check"
    /\ UNCHANGED <<pix, meta>>
    /\ nal_sent' = NoSend
    /\ last_result' = "none"
    /\ idr_passed' = "none"
    /\ UNCHANGED <<acq_i, client_connected, force_idr, frames_dropped_by_wine>>
    /\ UNCHANGED <<config_calls, last_conn_event, keyframes_out, flush_log,
                   stream_phase, idr_demand>>
    /\ UNCHANGED <<producer, channel, encoder, logged>>

\* end of the iteration: compare frames_dropped with the local baseline
DropCheck ==
    /\ pc = "drop_check"
    /\ LET new_dropped == header.frames_dropped IN
         IF U64Gt(new_dropped, frames_dropped_by_wine)
         THEN LET d == U64Sub(new_dropped, frames_dropped_by_wine) IN
                /\ drop_warning' = [logged |-> TRUE, delta |-> d]
                /\ warned_total' = U64Add(warned_total, d)
                /\ frames_dropped_by_wine' = new_dropped
         ELSE /\ drop_warning' = NoWarning
              /\ UNCHANGED <<warned_total, frames_dropped_by_wine>>
    /\ pc' = "check"
    /\ UNCHANGED <<acq_i, buffer_idx, frame_copy, client_connected, force_idr,
                   frames_processed>>
    /\ UNCHANGED <<ring, producer, channel, encoder, session>>

\* ----------------------------------------------------- run_bridge: shutdown
\* encoder.flush(): finish() fails, or every queued frame is drained, each a
\* keyframe or not as the hardware decides; each output is forwarded with a
\* zero timestamp if client_connected.  Then run_bridge returns and the ring
\* is dropped.
Flush ==
    /\ pc = "flush"
    /\ \/ /\ flush_log' = [called |-> TRUE, ok |-> FALSE, outputs |-> 0,
                           keyframes |-> 0, forwarded |-> 0]
          /\ UNCHANGED <<enc_queue, nal_sent>>
       \/ \E ks \in [1 .. Len(enc_queue) -> BOOLEAN] :
            LET n == Len(enc_queue)
                fwd == should_send_nal(client_connected) IN
              /\ flush_log' = [called |-> TRUE, ok |-> TRUE, outputs |-> n,
                               keyframes |-> Cardinality({j \in 1 .. n : ks[j]}),
                               forwarded |-> IF fwd THEN n ELSE 0]
              /\ nal_sent' = IF fwd /\ n > 0
                              THEN [phase |-> "flush", timestamp |-> 0,
                                    frame |-> enc_queue[n],
                                    is_keyframe |-> ks[n],
                                    conn |-> last_conn_event]
                              ELSE nal_sent
              /\ enc_queue' = <<>>
    /\ pc' = "done"
    /\ header' = shm_shutdown(header)
    /\ UNCHANGED <<state, pix, meta>>
    /\ UNCHANGED <<acq_i, buffer_idx, frame_copy, client_connected, force_idr,
                   frames_dropped_by_wine, frames_processed>>
    /\ UNCHANGED <<config_sent, config_calls, last_conn_event, keyframes_out,
                   last_result, stream_phase, idr_demand, idr_passed>>
    /\ UNCHANGED <<producer, channel, logged, conversion>>

\* ------------------------------------------------------ specification
Next ==
    \/ P_WriteConfig
    \/ P_SetConfig
    \/ P_Begin
    \/ P_Fill
    \/ P_Publish
    \/ P_Shutdown
    \/ SessionEvent
    \/ WaitConfigDone
    \/ StartupFails
    \/ ConnectWaitShutdown
    \/ ConnectWaitEvent
    \/ ConnectWaitTimeout
    \/ ShutdownCheck
    \/ DrainEvent
    \/ DrainDone
    \/ AcquireCas
    \/ AcquireNone
    \/ EncodeFrame
    \/ ReleaseFrame
    \/ DropCheck
    \/ Flush

Spec == Init /\ [][Next]_vars

\* ------------------------------------------- the ring's API on its own
\* try_acquire_frame and release_frame called on a ring in any condition the
\* mapped file can be in: each state word any of the four states or a word
\* outside them, the two consumer counters anywhere in u64, the wrap included,
\* and at most one buffer whose metadata announce one row more than
\* MAX_FRAME_SIZE holds.
StateWords == 0 .. (Encoding + 1)

CounterSamples ==
    {U64Zero,
     <<LimbBase - 1, 0, 0, 0>>,
     <<LimbBase - 1, LimbBase - 1, LimbBase - 1, 0>>,
     U64Max}

InitRing ==
    /\ state \in [Buffers -> StateWords]
    /\ pix = [i \in Buffers |-> i + 1]
    /\ \E big \in Buffers \cup {NoBuf} :
         meta = [i \in Buffers |->
                   [width |-> IF i = big THEN MAX_WIDTH ELSE 2,
                    height |-> IF i = big THEN MAX_HEIGHT + 1 ELSE 2,
                    stride |-> IF i = big THEN MAX_WIDTH * BYTES_PER_PIXEL ELSE 8,
                    timestamp_ns |-> 10 + i + 1, frame_number |-> i + 1,
                    is_idr |-> i % 2]]
    /\ \E fe \in CounterSamples, rs \in CounterSamples, sd \in {0, 1} :
         header = [CreatedHeader EXCEPT
                     !.config_width = 2, !.config_height = 2,
                     !.config_format = 1, !.config_set = 1,
                     !.shutdown = sd,
                     !.frames_encoded = fe, !.read_sequence = rs,
                     !.frames_written = <<3, 0, 0, 0>>,
                     !.write_sequence = <<3, 0, 0, 0>>,
                     !.frames_dropped = <<1, 0, 0, 0>>]
    /\ ppc = "idle"
    /\ pbuf = NoBuf
    /\ pframe = 0
    /\ ndrops = 0
    /\ published = [i \in Buffers |-> [pix |-> pix[i], meta |-> meta[i]]]
    /\ events = <<>>
    /\ nevents = 0
    /\ \/ pc = "acquire" /\ buffer_idx = NoBuf /\ frame_copy = ZeroMeta
       \/ /\ pc = "release"
          /\ buffer_idx \in Buffers
          /\ frame_copy = from_raw(meta[buffer_idx])
          /\ slice_in_mapping(buffer_idx, frame_copy)
    /\ acq_i = 0
    /\ client_connected = FALSE
    /\ force_idr = TRUE
    /\ frames_dropped_by_wine = U64Zero
    /\ frames_processed = U64Zero
    /\ config_sent = FALSE
    /\ enc_queue = <<>>
    /\ ConversionIdle
    /\ nal_sent = NoSend
    /\ config_calls = 0
    /\ last_conn_event = "none"
    /\ keyframes_out = 0
    /\ last_result = "none"
    /\ flush_log = NoFlush
    /\ stream_phase = "no_client"
    /\ IdrWatchIdle
    /\ drop_warning = NoWarning
    /\ warned_total = U64Zero

\* the caller between two calls: it is done with the returned slice and
\* releases, or it calls try_acquire_frame again
RingCaller ==
    /\ \/ pc = "encode" /\ pc' = "release"
       \/ pc = "drop_check" /\ pc' = "acquire"
    /\ UNCHANGED <<acq_i, buffer_idx, frame_copy, client_connected, force_idr,
                   frames_dropped_by_wine, frames_processed>>
    /\ UNCHANGED <<ring, producer, channel, encoder, session, logged>>

NextRing ==
    \/ AcquireCas
    \/ AcquireNone
    \/ ReleaseFrame
    \/ RingCaller

SpecRing == InitRing /\ [][NextRing]_vars

\* ------------------------------------------- the loop with a client connected
\* The steady-state loop from the moment the connect wait has ended on a
\* ClientConnected (main.rs:96): the producer has configured the ring, the
\* encoder and the session exist, the loop's locals have their initial values.
\* The frames and events of a run are counted from here.
InitStream ==
    /\ state = [i \in Buffers |-> Empty]
    /\ pix = [i \in Buffers |-> 0]
    /\ meta = [i \in Buffers |-> ZeroMeta]
    /\ header = [CreatedHeader EXCEPT !.config_width = 2, !.config_height = 2,
                                      !.config_format = 1, !.config_set = 1]
    /\ ppc = "idle"
    /\ pbuf = NoBuf
    /\ pframe = 0
    /\ ndrops = 0
    /\ published = [i \in Buffers |-> [pix |-> 0, meta |-> ZeroMeta]]
    /\ events = <<>>
    /\ nevents = 0
    /\ pc = "check"
    /\ acq_i = 0
    /\ buffer_idx = NoBuf
    /\ frame_copy = ZeroMeta
    /\ client_connected = TRUE
    /\ force_idr = TRUE
    /\ frames_dropped_by_wine = U64Zero
    /\ frames_processed = U64Zero
    /\ config_sent = FALSE
    /\ enc_queue = <<>>
    /\ ConversionIdle
    /\ nal_sent = NoSend
    /\ config_calls = 0
    /\ last_conn_event = "ClientConnected"
    /\ keyframes_out = 0
    /\ last_result = "none"
    /\ flush_log = NoFlush
    /\ stream_phase = "idle"
    /\ IdrWatchIdle
    /\ drop_warning = NoWarning
    /\ warned_total = U64Zero

NextStream ==
    \/ P_Begin
    \/ P_Fill
    \/ P_Publish
    \/ P_Shutdown
    \/ SessionEvent
    \/ ShutdownCheck
    \/ DrainEvent
    \/ DrainDone
    \/ AcquireCas
    \/ AcquireNone
    \/ EncodeFrame
    \/ ReleaseFrame
    \/ DropCheck
    \/ Flush

SpecStream == InitStream /\ [][NextStream]_vars

\* ------------------------------------------- the loop and a dropping producer
\* The steady-state loop entered after the connect wait timed out, with a
\* producer that also counts frames it could not place.  frames_dropped is the
\* producer's u64: the loop may find it at zero, just below a limb carry, or
\* just below the wrap.
DropSamples ==
    {U64Zero,
     <<LimbBase - 1, 0, 0, 0>>,
     <<LimbBase - 2, LimbBase - 1, LimbBase - 1, LimbBase - 1>>}

InitDrops ==
    /\ state = [i \in Buffers |-> Empty]
    /\ pix = [i \in Buffers |-> 0]
    /\ meta = [i \in Buffers |-> ZeroMeta]
    /\ \E fd \in DropSamples :
         header = [CreatedHeader EXCEPT !.config_width = 2, !.config_height = 2,
                                        !.config_format = 1, !.config_set = 1,
                                        !.frames_dropped = fd]
    /\ ppc = "idle"
    /\ pbuf = NoBuf
    /\ pframe = 0
    /\ ndrops = 0
    /\ published = [i \in Buffers |-> [pix |-> 0, meta |-> ZeroMeta]]
    /\ events = <<>>
    /\ nevents = 0
    /\ pc = "check"
    /\ acq_i = 0
    /\ buffer_idx = NoBuf
    /\ frame_copy = ZeroMeta
    /\ client_connected = FALSE
    /\ force_idr = TRUE
    /\ frames_dropped_by_wine = U64Zero
    /\ frames_processed = U64Zero
    /\ config_sent = FALSE
    /\ enc_queue = <<>>
    /\ ConversionIdle
    /\ nal_sent = NoSend
    /\ config_calls = 0
    /\ last_conn_event = "none"
    /\ keyframes_out = 0
    /\ last_result = "none"
    /\ flush_log = NoFlush
    /\ stream_phase = "no_client"
    /\ IdrWatchIdle
    /\ drop_warning = NoWarning
    /\ warned_total = U64Zero

NextDrops ==
    \/ P_Begin
    \/ P_Fill
    \/ P_Publish
    \/ P_Drop
    \/ P_Shutdown
    \/ ShutdownCheck
    \/ DrainDone
    \/ AcquireCas
    \/ AcquireNone
    \/ EncodeFrame
    \/ ReleaseFrame
    \/ DropCheck
    \/ Flush

SpecDrops == InitDrops /\ [][NextDrops]_vars

\* ------------------------------------------- avcc_to_annexb on its own
\* The bytes of an EncodedFrame's data: well-formed records, each a 4-byte
\* big-endian length and that many payload bytes, then possibly bytes that are
\* not a well-formed record.
PayloadBytes == {0, 1}
Payloads == UNION {[1 .. n -> PayloadBytes] : n \in 0 .. MaxPayload}

\* [4-byte big-endian length][payload], for a payload shorter than 256 bytes
avcc_record(payload) == <<0, 0, 0, Len(payload)>> \o payload

RECURSIVE avcc_concat(_)
avcc_concat(records) ==
    IF records = <<>> THEN <<>>
    ELSE avcc_record(Head(records)) \o avcc_concat(Tail(records))

\* what can follow the well-formed records: nothing; fewer than four bytes; a
\* prefix announcing more bytes than are left (1 with none left, 2 with one
\* left, 3 with two left, 2^24 with two left)
Tails ==
    {<<>>,
     <<0>>, <<0, 0, 1>>,
     <<0, 0, 0, 1>>, <<0, 0, 0, 2, 1>>, <<0, 0, 0, 3, 0, 1>>, <<1, 0, 0, 0, 0, 1>>}

\* frame.data as process_encoded_frame hands it to avcc_to_annexb
frame_data == avcc_concat(avcc_records) \o avcc_tail

InitAnnexB ==
    /\ state = [i \in Buffers |-> Empty]
    /\ pix = [i \in Buffers |-> 0]
    /\ meta = [i \in Buffers |-> ZeroMeta]
    /\ header = [CreatedHeader EXCEPT !.config_width = 2, !.config_height = 2,
                                      !.config_format = 1, !.config_set = 1]
    /\ ppc = "idle"
    /\ pbuf = NoBuf
    /\ pframe = 0
    /\ ndrops = 0
    /\ published = [i \in Buffers |-> [pix |-> 0, meta |-> ZeroMeta]]
    /\ events = <<>>
    /\ nevents = 0
    /\ pc = "avcc"
    /\ acq_i = 0
    /\ buffer_idx = NoBuf
    /\ frame_copy = ZeroMeta
    /\ client_connected = FALSE
    /\ force_idr = TRUE
    /\ frames_dropped_by_wine = U64Zero
    /\ frames_processed = U64Zero
    /\ config_sent = FALSE
    /\ enc_queue = <<>>
    /\ y_plane = <<0, 0, 0, 0>>
    /\ u_plane = <<0>>
    /\ v_plane = <<0>>
    /\ bgra = <<>>
    /\ avcc_records \in UNION {[1 .. n -> Payloads] : n \in 0 .. MaxRecords}
    /\ avcc_tail \in Tails
    /\ nal_data = <<>>
    /\ convert_loop = NoConvert
    /\ nal_sent = NoSend
    /\ config_calls = 0
    /\ last_conn_event = "none"
    /\ keyframes_out = 0
    /\ last_result = "none"
    /\ flush_log = NoFlush
    /\ stream_phase = "no_client"
    /\ IdrWatchIdle
    /\ drop_warning = NoWarning
    /\ warned_total = U64Zero

\* process_encoded_frame: `let nal_data = avcc_to_annexb(&frame.data)`
Reformat ==
    /\ pc = "avcc"
    /\ nal_data' = avcc_to_annexb(frame_data)
    /\ pc' = "annexb"
    /\ UNCHANGED <<acq_i, buffer_idx, frame_copy, client_connected, force_idr,
                   frames_dropped_by_wine, frames_processed>>
    /\ UNCHANGED <<config_sent, enc_queue, y_plane, u_plane, v_plane, bgra,
                   avcc_records, avcc_tail, convert_loop>>
    /\ UNCHANGED <<ring, producer, channel, session, logged>>

NextAnnexB == Reformat

SpecAnnexB == InitAnnexB /\ [][NextAnnexB]_vars

\* ------------------------------------------- bgra_to_i420 on its own
\* The pictures converted: every 2x2 picture (the configured size) whose pixels
\* are red with some alpha, black, white, blue or green.
Colours ==
    {[b |-> 0,   g |-> 0,   r |-> 255, a |-> 0],
     [b |-> 0,   g |-> 0,   r |-> 255, a |-> 128],
     [b |-> 0,   g |-> 0,   r |-> 255, a |-> 255],
     [b |-> 0,   g |-> 0,   r |-> 0,   a |-> 255],
     [b |-> 255, g |-> 255, r |-> 255, a |-> 255],
     [b |-> 255, g |-> 0,   r |-> 0,   a |-> 255],
     [b |-> 0,   g |-> 255, r |-> 0,   a |-> 255]}

InitI420 ==
    /\ state = [i \in Buffers |-> Empty]
    /\ pix = [i \in Buffers |-> 0]
    /\ meta = [i \in Buffers |-> ZeroMeta]
    /\ header = [CreatedHeader EXCEPT !.config_width = 2, !.config_height = 2,
                                      !.config_format = 1, !.config_set = 1]
    /\ ppc = "idle"
    /\ pbuf = NoBuf
    /\ pframe = 0
    /\ ndrops = 0
    /\ published = [i \in Buffers |-> [pix |-> 0, meta |-> ZeroMeta]]
    /\ events = <<>>
    /\ nevents = 0
    /\ pc = "bgra"
    /\ acq_i = 0
    /\ buffer_idx = NoBuf
    /\ frame_copy = ZeroMeta
    /\ client_connected = FALSE
    /\ force_idr = TRUE
    /\ frames_dropped_by_wine = U64Zero
    /\ frames_processed = U64Zero
    /\ config_sent = FALSE
    /\ enc_queue = <<>>
    /\ y_plane = <<0, 0, 0, 0>>
    /\ u_plane = <<0>>
    /\ v_plane = <<0>>
    /\ bgra \in [1 .. (header.config_width * header.config_height) -> Colours]
    /\ avcc_records = <<>>
    /\ avcc_tail = <<>>
    /\ nal_data = <<>>
    /\ convert_loop = NoConvert
    /\ nal_sent = NoSend
    /\ config_calls = 0
    /\ last_conn_event = "none"
    /\ keyframes_out = 0
    /\ last_result = "none"
    /\ flush_log = NoFlush
    /\ stream_phase = "no_client"
    /\ IdrWatchIdle
    /\ drop_warning = NoWarning
    /\ warned_total = U64Zero

\* encode_frame: `self.bgra_to_i420(bgra_data)` on the encoder's width x height
Convert ==
    /\ pc = "bgra"
    /\ LET r == bgra_to_i420(bgra, header.config_width, header.config_height) IN
         /\ y_plane' = r.y_plane
         /\ u_plane' = r.u_plane
         /\ v_plane' = r.v_plane
    /\ pc' = "i420"
    /\ UNCHANGED <<acq_i, buffer_idx, frame_copy, client_connected, force_idr,
                   frames_dropped_by_wine, frames_processed>>
    /\ UNCHANGED <<config_sent, enc_queue, bgra, avcc_records, avcc_tail, nal_data,
                   convert_loop>>
    /\ UNCHANGED <<ring, producer, channel, session, logged>>

NextI420 == Convert

SpecI420 == InitI420 /\ [][NextI420]_vars

\* ------------------------------------------- bgra_to_i420, index by index
\* encode_frame on an acquired frame, followed through the iterations of
\* bgra_to_i420's loop.  The producer has configured a picture of up to
\* MaxDim x MaxDim pixels, the encoder has been built for that size, and the
\* frame acquired from buffer 0 is no wider and no higher than configured, its
\* rows either packed or padded by one pixel; its pixels have one colour.  The
\* slice handed to encode_frame is frame_size bytes long.
InitBounds ==
    /\ state = [i \in Buffers |-> IF i = 0 THEN Encoding ELSE Empty]
    /\ pix = [i \in Buffers |-> IF i = 0 THEN 1 ELSE 0]
    /\ \E W \in 1 .. MaxDim, H \in 1 .. MaxDim :
         /\ header = [CreatedHeader EXCEPT !.config_width = W, !.config_height = H,
                                           !.config_format = 1, !.config_set = 1,
                                           !.frames_written = <<1, 0, 0, 0>>,
                                           !.write_sequence = <<1, 0, 0, 0>>]
         /\ y_plane = [k \in 1 .. y_size(W, H) |-> 0]
         /\ u_plane = [k \in 1 .. uv_size(W, H) |-> 0]
         /\ v_plane = [k \in 1 .. uv_size(W, H) |-> 0]
         /\ \E w \in 1 .. W, h \in 1 .. H, pad \in {0, 1}, c \in Colours :
              LET raw == [width |-> w, height |-> h,
                          stride |-> (w + pad) * BYTES_PER_PIXEL,
                          timestamp_ns |-> 11, frame_number |-> 1, is_idr |-> 0] IN
                /\ frame_size(raw) <= MAX_FRAME_SIZE
                /\ meta = [i \in Buffers |-> IF i = 0 THEN raw ELSE ZeroMeta]
                /\ published = [i \in Buffers |->
                                  IF i = 0 THEN [pix |-> 1, meta |-> raw]
                                  ELSE [pix |-> 0, meta |-> ZeroMeta]]
                /\ frame_copy = from_raw(raw)
                /\ bgra = [k \in 1 .. (frame_size(raw) \div BYTES_PER_PIXEL) |-> c]
    /\ ppc = "idle"
    /\ pbuf = NoBuf
    /\ pframe = 1
    /\ ndrops = 0
    /\ events = <<>>
    /\ nevents = 0
    /\ pc = "encode"
    /\ acq_i = 0
    /\ buffer_idx = 0
    /\ client_connected = FALSE
    /\ force_idr = TRUE
    /\ frames_dropped_by_wine = U64Zero
    /\ frames_processed = U64Zero
    /\ config_sent = FALSE
    /\ enc_queue = <<>>
    /\ avcc_records = <<>>
    /\ avcc_tail = <<>>
    /\ nal_data = <<>>
    /\ convert_loop = NoConvert
    /\ nal_sent = NoSend
    /\ config_calls = 0
    /\ last_conn_event = "none"
    /\ keyframes_out = 0
    /\ last_result = "none"
    /\ flush_log = NoFlush
    /\ stream_phase = "no_client"
    /\ IdrWatchIdle
    /\ drop_warning = NoWarning
    /\ warned_total = U64Zero

\* encode_frame calls bgra_to_i420: `for y in 0..h { for x in 0..w {`
ConvertBegin ==
    /\ pc = "encode"
    /\ convert_loop.at = "idle"
    /\ convert_loop' = [NoConvert EXCEPT
                          !.at = IF header.config_width = 0 \/ header.config_height = 0
                                 THEN "done" ELSE "loop"]
    /\ UNCHANGED <<y_plane, u_plane, v_plane, bgra, avcc_records, avcc_tail, nal_data>>
    /\ UNCHANGED <<config_sent, enc_queue>>
    /\ UNCHANGED <<ring, producer, channel, bridge, session, logged>>

\* one iteration of the loop body: three reads of bgra, the luma write, and at
\* even y and even x the two chroma writes.  An index past the end of a slice
\* or a Vec panics; run_bridge unwinds and the ring is dropped.
ConvertPixel ==
    /\ pc = "encode"
    /\ convert_loop.at = "loop"
    /\ LET w == header.config_width
           h == header.config_height
           y == convert_loop.y
           x == convert_loop.x
           idx == bgra_index(w, y, x)
           yi == y_index(w, y, x)
           ui == uv_index(w, y, x)
           chroma == y % 2 = 0 /\ x % 2 = 0
           read_ok == idx + 2 < Len(bgra) * BYTES_PER_PIXEL
           y_ok == read_ok /\ yi < Len(y_plane)
           u_ok == y_ok /\ chroma /\ ui < Len(u_plane)
           v_ok == u_ok /\ ui < Len(v_plane)
           panicked == ~y_ok \/ (chroma /\ ~v_ok)
           last == y = h - 1 /\ x = w - 1
           p == bgra[(idx \div BYTES_PER_PIXEL) + 1] IN
         /\ convert_loop' =
               [at |-> IF panicked THEN "panicked" ELSE IF last THEN "done" ELSE "loop",
                y |-> IF panicked \/ last \/ x < w - 1 THEN y ELSE y + 1,
                x |-> IF panicked \/ last THEN x ELSE IF x < w - 1 THEN x + 1 ELSE 0,
                read_to |-> idx + 2,
                y_at |-> IF read_ok THEN yi ELSE -1,
                uv_at |-> IF y_ok /\ chroma THEN ui ELSE -1]
         /\ y_plane' = IF y_ok THEN [y_plane EXCEPT ![yi + 1] = clamp_u8(y_val(p))]
                       ELSE y_plane
         /\ u_plane' = IF u_ok THEN [u_plane EXCEPT ![ui + 1] = clamp_u8(u_val(p))]
                       ELSE u_plane
         /\ v_plane' = IF v_ok THEN [v_plane EXCEPT ![ui + 1] = clamp_u8(v_val(p))]
                       ELSE v_plane
         /\ pc' = IF panicked THEN "done" ELSE IF last THEN "i420" ELSE pc
         /\ header' = IF panicked THEN shm_shutdown(header) ELSE header
    /\ UNCHANGED <<state, pix, meta>>
    /\ UNCHANGED <<acq_i, buffer_idx, frame_copy, client_connected, force_idr,
                   frames_dropped_by_wine, frames_processed>>
    /\ UNCHANGED <<bgra, avcc_records, avcc_tail, nal_data>>
    /\ UNCHANGED <<config_sent, enc_queue>>
    /\ UNCHANGED <<producer, channel, session, logged>>

NextBounds ==
    \/ ConvertBegin
    \/ ConvertPixel

SpecBounds == InitBounds /\ [][NextBounds]_vars

\* ------------------------------------------- the loop running for ever
\* The steady-state loop with no client and no shutdown, a producer that never
\* stops, and an encoder in steady state: every encode_frame call returns the
\* output of the frame just submitted, not a keyframe.  The statistics counters
\* are not followed.  The loop is one thread that is always scheduled: each of
\* its steps is taken once it is the step to take.  Nothing is assumed of the
\* producer.
InitLive ==
    /\ state = [i \in Buffers |-> Empty]
    /\ pix = [i \in Buffers |-> 0]
    /\ meta = [i \in Buffers |-> ZeroMeta]
    /\ header = [CreatedHeader EXCEPT !.config_width = 2, !.config_height = 2,
                                      !.config_format = 1, !.config_set = 1,
                                      !.frames_written = U64Untracked,
                                      !.write_sequence = U64Untracked,
                                      !.frames_encoded = U64Untracked,
                                      !.read_sequence = U64Untracked]
    /\ ppc = "idle"
    /\ pbuf = NoBuf
    /\ pframe = 0
    /\ ndrops = 0
    /\ published = [i \in Buffers |-> [pix |-> 0, meta |-> ZeroMeta]]
    /\ events = <<>>
    /\ nevents = 0
    /\ pc = "check"
    /\ acq_i = 0
    /\ buffer_idx = NoBuf
    /\ frame_copy = ZeroMeta
    /\ client_connected = FALSE
    /\ force_idr = TRUE
    /\ frames_dropped_by_wine = U64Zero
    /\ frames_processed = U64Untracked
    /\ config_sent = FALSE
    /\ enc_queue = <<>>
    /\ ConversionIdle
    /\ nal_sent = NoSend
    /\ config_calls = 0
    /\ last_conn_event = "none"
    /\ keyframes_out = 0
    /\ last_result = "none"
    /\ flush_log = NoFlush
    /\ stream_phase = "no_client"
    /\ IdrWatchIdle
    /\ drop_warning = NoWarning
    /\ warned_total = U64Zero

\* encode_frame with the encoder in steady state
EncodeSteady ==
    /\ EncodeFrame
    /\ last_result' = "Some"
    /\ keyframes_out' = keyframes_out

NextLive ==
    \/ P_BeginAgain
    \/ P_Fill
    \/ P_PublishAgain
    \/ ShutdownCheck
    \/ DrainDone
    \/ AcquireCas
    \/ AcquireNone
    \/ EncodeSteady
    \/ ReleaseFrame
    \/ DropCheck

LoopRuns ==
    /\ WF_vars(ShutdownCheck)
    /\ WF_vars(DrainDone)
    /\ WF_vars(AcquireCas)
    /\ WF_vars(AcquireNone)
    /\ WF_vars(EncodeSteady)
    /\ WF_vars(ReleaseFrame)
    /\ WF_vars(DropCheck)

SpecLive == InitLive /\ [][NextLive]_vars /\ LoopRuns

\* ------------------------------------------- the loop and its IDR demand
\* The steady-state loop entered after the connect wait timed out, with a
\* producer that never stops and chooses each frame's IDR hint, a session that
\* sends events, and an encoder that may fail, hold a frame back or return an
\* output on any call.  The encoder holds at most MaxQueue submitted frames
\* and the keyframes are counted up to MaxKeyframes.
EncodeShallow ==
    /\ EncodeFrame
    /\ Len(enc_queue') <= MaxQueue
    /\ keyframes_out' <= MaxKeyframes

NextIdr ==
    \/ P_BeginAgain
    \/ P_Fill
    \/ P_PublishAgain
    \/ SessionEvent
    \/ ShutdownCheck
    \/ DrainEvent
    \/ DrainDone
    \/ AcquireCas
    \/ AcquireNone
    \/ EncodeShallow
    \/ ReleaseFrame
    \/ DropCheck

SpecIdr == InitLive /\ [][NextIdr]_vars

\* ====================================================== the claims
\* who took a step
ByProducer   == ppc' # ppc /\ UNCHANGED bridge
ByTryAcquire == pc = "acquire" /\ pc' = "encode" /\ UNCHANGED producer
ByRelease    == pc = "release" /\ pc' = "drop_check" /\ UNCHANGED producer

\* the bridge holds buffer i from a successful try_acquire_frame to release_frame
ConsumerHolds(i) == pc \in {"encode", "release"} /\ buffer_idx = i
\* the producer holds buffer i from its Empty -> Writing CAS to its Ready store
ProducerHolds(i) == ppc \in {"fill", "publish"} /\ pbuf = i

\* C1: every change of a buffer's state word is Empty -> Writing or
\* Writing -> Ready by the producer, Ready -> Encoding by try_acquire_frame,
\* or Encoding -> Empty by release_frame; nothing else ever happens to it.
C1_StateCycle ==
    [][\A i \in Buffers :
         state'[i] # state[i] =>
            \/ state[i] = Empty    /\ state'[i] = Writing  /\ ByProducer
            \/ state[i] = Writing  /\ state'[i] = Ready    /\ ByProducer
            \/ state[i] = Ready    /\ state'[i] = Encoding /\ ByTryAcquire
            \/ state[i] = Encoding /\ state'[i] = Empty    /\ ByRelease]_vars

\* a buffer has been through the whole cycle and the producer has taken it again
C1_Witness ==
    /\ frames_processed = <<1, 0, 0, 0>>
    /\ \E i \in Buffers : state[i] = Writing /\ published[i].pix = 1

\* C2: no buffer is owned by both sides at once: while the bridge holds a
\* buffer its state is Encoding and the producer does not hold it, and while
\* the producer holds a buffer (the only time it writes pixels or metadata)
\* its state is Writing and the bridge does not hold it.
C2_MutualExclusion ==
    \A i \in Buffers :
       /\ ~(ConsumerHolds(i) /\ ProducerHolds(i))
       /\ ConsumerHolds(i) => state[i] = Encoding
       /\ ProducerHolds(i) => state[i] = Writing

\* both sides are at work, on different buffers
C2_Witness ==
    \E i, j \in Buffers :
       i # j /\ ConsumerHolds(i) /\ ProducerHolds(j) /\ ppc = "publish"

\* C3: for as long as the bridge holds a buffer, its metadata snapshot and the
\* buffer's pixel bytes are what the producer had written when it stored
\* Ready for that publication of the buffer.
C3_PayloadRoundTrip ==
    \A i \in Buffers :
       ConsumerHolds(i) =>
          /\ frame_copy = published[i].meta
          /\ pix[i] = published[i].pix
          /\ published[i].pix >= 1
          /\ frame_copy.frame_number = published[i].pix

\* the bridge holds the second frame while the producer is done
C3_Witness ==
    /\ pc = "release"
    /\ pix[buffer_idx] = 2
    /\ frame_copy.timestamp_ns = 12
    /\ Len(enc_queue) > 0 /\ enc_queue[Len(enc_queue)] = 2

\* try_acquire_frame returned None / left one failed compare-exchange behind
ReturnsNone == pc = "acquire" /\ pc' = "drop_check"
FailedCas   == pc = "acquire" /\ pc' = "acquire" /\ acq_i' # acq_i

\* C4: try_acquire_frame returns the lowest-indexed Ready buffer: the buffer
\* returned was Ready, no buffer before it was, only its state changes, to
\* Encoding, and the snapshot is that buffer's metadata; and None is returned
\* only when no buffer is Ready.
C4_LowestReady ==
    [][/\ ByTryAcquire =>
            LET i == buffer_idx' IN
              /\ i \in Buffers
              /\ state[i] = Ready
              /\ \A j \in Buffers : j < i => state[j] # Ready
              /\ state' = [state EXCEPT ![i] = Encoding]
              /\ frame_copy'.frame_number = meta[i].frame_number
       /\ ReturnsNone => \A j \in Buffers : state[j] # Ready]_vars

\* buffer 1 was returned although buffer 2 was Ready as well
C4_Witness ==
    /\ pc = "encode"
    /\ buffer_idx = 1
    /\ state[0] = Writing /\ state[1] = Encoding /\ state[2] = Ready
    /\ frames_processed = U64Zero

\* C5: try_acquire_frame returns None exactly when no buffer is Ready, and a
\* call that returns None changes nothing in the ring: no state word (Empty,
\* Writing, Encoding or a word outside the four states), no counter, no
\* metadata, no pixel.
C5_NoneMutatesNothing ==
    [][/\ (FailedCas \/ ReturnsNone) => UNCHANGED ring
       /\ ReturnsNone => \A j \in Buffers : state[j] # Ready
       /\ ByTryAcquire => \E j \in Buffers : state[j] = Ready]_vars

\* None was returned on a ring holding a foreign word, a Writing and an
\* Encoding buffer
C5_Witness ==
    /\ pc = "drop_check"
    /\ frames_processed = U64Zero
    /\ state[0] = Encoding + 1 /\ state[1] = Writing /\ state[2] = Encoding

\* b = a + 1 modulo 2^64: the limbs below the first one that is not full go
\* from full to zero, that one goes up by one, the limbs above keep their value
IsSucc64(a, b) ==
    \E k \in 1 .. 5 :
       /\ \A j \in 1 .. 4 : j < k => a[j] = LimbBase - 1 /\ b[j] = 0
       /\ k <= 4 => /\ a[k] < LimbBase - 1
                    /\ b[k] = a[k] + 1
                    /\ \A j \in 1 .. 4 : j > k => b[j] = a[j]

\* C6: release_frame(i) stores Empty in buffer i, adds exactly 1 modulo 2^64
\* to frames_encoded and to read_sequence, and changes no other buffer's state
\* and no other header field.
C6_ReleaseEffect ==
    [][ByRelease =>
          /\ state' = [state EXCEPT ![buffer_idx] = Empty]
          /\ IsSucc64(header.frames_encoded, header'.frames_encoded)
          /\ IsSucc64(header.read_sequence, header'.read_sequence)
          /\ \A f \in {"magic", "version", "initialized", "shutdown",
                       "config_width", "config_height", "config_format",
                       "config_set", "write_sequence", "frames_written",
                       "frames_dropped"} : header'[f] = header[f]
          /\ UNCHANGED <<pix, meta>>]_vars

\* a release has wrapped frames_encoded to zero and carried in read_sequence,
\* on a buffer that was not the only one in use
C6_Witness ==
    /\ pc = "drop_check"
    /\ frames_processed = <<1, 0, 0, 0>>
    /\ header.frames_encoded = U64Zero
    /\ header.read_sequence = <<0, 1, 0, 0>>
    /\ state[0] = Empty /\ state[1] = Ready /\ state[2] = Encoding

\* C7: once shutdown is non-zero it stays so; the loop's shutdown check then
\* leaves the loop for the flush; from there no buffer is acquired any more,
\* encoder.flush() is called, and its outputs are forwarded, with a zero
\* timestamp, only if client_connected.
C7_ShutdownHonored ==
    [][/\ header.shutdown # 0 => header'.shutdown # 0
       /\ (pc = "check" /\ header.shutdown # 0 /\ pc' # pc) => pc' = "flush"
       /\ (pc = "check" /\ header.shutdown = 0 /\ pc' # pc) => pc' = "drain"
       /\ pc \in {"flush", "done"} =>
             /\ pc' \in {"flush", "done"}
             /\ buffer_idx' = NoBuf
             /\ \A i \in Buffers : state'[i] = Encoding => state[i] = Encoding
       /\ (pc = "flush" /\ pc' # pc) =>
             /\ pc' = "done"
             /\ flush_log'.called
             /\ flush_log'.forwarded > 0 => client_connected
             /\ nal_sent' # NoSend =>
                   /\ client_connected
                   /\ nal_sent'.phase = "flush"
                   /\ nal_sent'.timestamp = 0]_vars

\* the loop has left on shutdown with a frame still Ready, and the flush
\* output went to the connected client
C7_Witness ==
    /\ pc = "done"
    /\ flush_log.ok /\ flush_log.forwarded = 1
    /\ nal_sent.phase = "flush" /\ nal_sent.timestamp = 0
    /\ \E i \in Buffers : state[i] = Ready

\* C8: every send_video_nal call, in the loop and in the flush, is made while
\* the last ClientConnected/ClientDisconnected event the bridge has received
\* is ClientConnected; after a ClientDisconnected, or with no ClientConnected
\* yet, there is none.
C8_SendOnlyConnected ==
    /\ nal_sent # NoSend => nal_sent.conn = "ClientConnected"
    /\ client_connected <=> last_conn_event = "ClientConnected"

\* a frame is forwarded after two session events have been handled
C8_Witness ==
    /\ nal_sent.phase = "loop"
    /\ nevents = 2 /\ events = <<>>
    /\ frames_processed = <<1, 0, 0, 0>>

C10_ForceIdrLatch ==
    [][/\ (force_idr /\ ~force_idr') => (pc = "encode" /\ last_result' = "Some")
       /\ (pc = "encode" /\ pc' = "release" /\ last_result' \in {"None", "Err"})
             => force_idr' = force_idr
       /\ ReturnsNone => force_idr' = force_idr]_vars

\* after an output was consumed the latch was set again, and an encode call
\* that returned None has left it set
C10_Witness ==
    /\ pc = "release"
    /\ last_result = "None"
    /\ force_idr
    /\ config_calls = 1

\* encode_frame returned an output, a keyframe / not a keyframe
OutputReturned == pc = "encode" /\ last_result' = "Some"
KeyframeReturned == OutputReturned /\ keyframes_out' = keyframes_out + 1

\* C11: while non-keyframes are streamed to the client, once the bridge has
\* handled ClientDisconnected and then ClientConnected, the next output that
\* encode_frame returns is a keyframe.
C11_ReconnectIdr ==
    [][(OutputReturned /\ stream_phase = "reconnected") => KeyframeReturned]_vars

\* C12 as stated: for as long as no ClientConnected has been handled, no
\* send_video_nal call occurs and force_idr is true.
C12_PreClientGrace ==
    stream_phase = "no_client" => (nal_sent = NoSend /\ force_idr)

\* C12, amended: for as long as no ClientConnected has been handled, frames are
\* acquired and encoded and no send_video_nal call occurs, in the loop or in the
\* flush; force_idr stays true until encode_frame returns an output, which
\* clears it with or without a client, and it is true when ClientConnected has
\* been handled.
C12_PreClientGraceAmended ==
    [][/\ stream_phase' = "no_client" =>
             (nal_sent' = NoSend /\ flush_log'.forwarded = 0)
       /\ (stream_phase = "no_client" /\ force_idr /\ ~force_idr') => OutputReturned
       /\ (stream_phase = "no_client" /\ OutputReturned) => ~force_idr'
       /\ (stream_phase = "no_client" /\ stream_phase' # "no_client") =>
             (force_idr' /\ client_connected')]_vars

\* with no client yet, a frame was acquired and encoded, its output was not
\* sent, and the latch is clear
C12_Witness ==
    /\ stream_phase = "no_client"
    /\ pc = "release"
    /\ last_result = "Some"
    /\ nal_sent = NoSend
    /\ ~force_idr

\* the drop check at the end of a loop iteration
ByDropCheck == pc = "drop_check" /\ pc' = "check"
\* a > b as 64-bit numbers: the highest limb where they differ decides
Exceeds(a, b) ==
    \E k \in 1 .. 4 : a[k] > b[k] /\ \A j \in (k + 1) .. 4 : a[j] = b[j]

\* C13: the drop check logs exactly one warning, reporting d, and moves the
\* baseline to frames_dropped when frames_dropped exceeds the baseline by
\* d > 0; otherwise it logs nothing and leaves the baseline; nothing else logs
\* the warning or moves the baseline; so the baseline never decreases and the
\* reported numbers add up to the baseline.
C13_DropAccounting ==
    [][/\ ByDropCheck =>
             IF Exceeds(header.frames_dropped, frames_dropped_by_wine)
             THEN /\ drop_warning'.logged
                  /\ drop_warning'.delta # U64Zero
                  /\ U64Add(frames_dropped_by_wine, drop_warning'.delta)
                        = header.frames_dropped
                  /\ frames_dropped_by_wine' = header.frames_dropped
             ELSE /\ ~drop_warning'.logged
                  /\ frames_dropped_by_wine' = frames_dropped_by_wine
       /\ ~ByDropCheck => UNCHANGED <<frames_dropped_by_wine, logged>>
       /\ ~Exceeds(frames_dropped_by_wine, frames_dropped_by_wine')
       /\ warned_total' = frames_dropped_by_wine']_vars

\* after a first warning, two more drops across a limb carry are reported as 2
C13_Witness ==
    /\ drop_warning.logged
    /\ drop_warning.delta = <<2, 0, 0, 0>>
    /\ frames_dropped_by_wine = <<1, 1, 0, 0>>
    /\ warned_total = <<1, 1, 0, 0>>
    /\ frames_processed = <<1, 0, 0, 0>>

\* the start code followed by the payload, record after record
RECURSIVE Framed(_)
Framed(records) ==
    IF records = <<>> THEN <<>>
    ELSE <<0, 0, 0, 1>> \o Head(records) \o Framed(Tail(records))

\* the start code is at position i of b
StartCodeAt(b, i) ==
    /\ i + 3 <= Len(b)
    /\ b[i] = 0 /\ b[i + 1] = 0 /\ b[i + 2] = 0 /\ b[i + 3] = 1

\* b split on the start code, scanning from position i: `cur` is the piece
\* being read, `acc` the pieces before it
RECURSIVE SplitFrom(_, _, _, _)
SplitFrom(b, i, cur, acc) ==
    IF i > Len(b) THEN Append(acc, cur)
    ELSE IF StartCodeAt(b, i) THEN SplitFrom(b, i + 4, <<>>, Append(acc, cur))
    ELSE SplitFrom(b, i + 1, Append(cur, b[i]), acc)

\* the payloads read back: the pieces after each start code
Reparse(b) ==
    LET pieces == SplitFrom(b, 1, <<>>, <<>>)
    IN IF Head(pieces) = <<>> THEN Tail(pieces) ELSE pieces

\* a payload holds the start code somewhere
HoldsStartCode(payload) == \E i \in 1 .. Len(payload) : StartCodeAt(payload, i)

\* C14 as stated: for any well-formed concatenation of records the output is
\* the start-code-framed payloads in order, and splitting it on 00 00 00 01
\* gives back the payloads in order.
C14_AnnexBRoundTrip ==
    (pc = "annexb" /\ avcc_tail = <<>>) =>
       /\ nal_data = Framed(avcc_records)
       /\ Reparse(nal_data) = avcc_records

\* C14, amended: for any well-formed concatenation of records the output is
\* the start-code-framed payloads in order; splitting it on 00 00 00 01 gives
\* back the payloads in order when no payload holds the bytes 00 00 00 01.
C14_AnnexBRoundTripAmended ==
    (pc = "annexb" /\ avcc_tail = <<>>) =>
       /\ nal_data = Framed(avcc_records)
       /\ (\A k \in 1 .. Len(avcc_records) : ~HoldsStartCode(avcc_records[k]))
             => Reparse(nal_data) = avcc_records

\* two records, the first ending in zeros, the second empty, are read back
C14_Witness ==
    /\ pc = "annexb"
    /\ avcc_tail = <<>>
    /\ avcc_records = << <<1, 0, 0, 0>>, <<>> >>
    /\ nal_data = <<0, 0, 0, 1, 1, 0, 0, 0, 0, 0, 0, 1>>
    /\ Reparse(nal_data) = avcc_records

\* C15: when a record's length exceeds the bytes left, the conversion stops:
\* the output is the start-code-framed payloads of the well-formed records
\* before it, and nothing of the malformed record.
C15_MalformedLength ==
    (pc = "annexb" /\ Len(avcc_tail) >= 4) =>
       nal_data = Framed(avcc_records)

\* two good records, then a prefix announcing 3 bytes with 2 left
C15_Witness ==
    /\ pc = "annexb"
    /\ avcc_tail = <<0, 0, 0, 3, 0, 1>>
    /\ Len(avcc_records) = 2
    /\ Len(nal_data) = 4 + 1 + 4 + 2

\* every pixel of the picture is red, whatever its alpha
SolidRed == \A k \in DOMAIN bgra : bgra[k].b = 0 /\ bgra[k].g = 0 /\ bgra[k].r = 255

\* C16 as stated: a 2x2 solid red picture converts to Y = 81 four times,
\* U = 90, V = 240.
C16_SolidRed ==
    (pc = "i420" /\ SolidRed) =>
       /\ y_plane = <<81, 81, 81, 81>>
       /\ u_plane = <<90>>
       /\ v_plane = <<240>>

\* C16, amended: a 2x2 solid red picture, any alpha, converts to Y = 82 four
\* times, U = 90, V = 240, the values of the integer formulas
\* ((66r + 128) >> 8) + 16, ((-38r + 128) >> 8) + 128, ((112r + 128) >> 8) + 128
\* at r = 255.
C16_SolidRedAmended ==
    (pc = "i420" /\ SolidRed) =>
       /\ y_plane = <<82, 82, 82, 82>>
       /\ u_plane = <<90>>
       /\ v_plane = <<240>>

\* a solid red picture with three different alphas has been converted
C16_Witness ==
    /\ pc = "i420"
    /\ SolidRed
    /\ {bgra[k].a : k \in DOMAIN bgra} = {0, 128, 255}
    /\ y_plane[1] = 82

\* C17: try_acquire_frame skips a Ready buffer whose height * stride exceeds
\* MAX_FRAME_SIZE: the scan's step at that buffer does not return it (no
\* slice of it is produced) and goes on to the next buffer.
C17_OversizeSkipped ==
    [][(/\ pc = "acquire"
        /\ acq_i < NUM_BUFFERS
        /\ state[acq_i] = Ready
        /\ meta[acq_i].height * meta[acq_i].stride > MAX_FRAME_SIZE
        /\ <<pc, acq_i>>' # <<pc, acq_i>>)
          => (pc' = "acquire" /\ acq_i' = acq_i + 1 /\ buffer_idx' = NoBuf)]_vars

\* C18 as stated: with the loop running and shutdown not set, every buffer
\* left Ready is eventually acquired and every acquired buffer is eventually
\* released, whatever the producer does.
C18_NoStarvation ==
    \A i \in Buffers :
       /\ (state[i] = Ready) ~> (state[i] = Encoding)
       /\ (state[i] = Encoding) ~> (state[i] = Empty)

\* C18, amended: with the loop running and shutdown not set, whenever some
\* buffer is Ready the loop eventually acquires a buffer, buffer 0 left Ready
\* is eventually acquired, and every acquired buffer is eventually released.
C18_NoStarvationAmended ==
    /\ (\E i \in Buffers : state[i] = Ready) ~> (\E i \in Buffers : state[i] = Encoding)
    /\ (state[0] = Ready) ~> (state[0] = Encoding)
    /\ \A i \in Buffers : (state[i] = Encoding) ~> (state[i] = Empty)

\* buffer 0 is acquired once more, after an earlier frame's output, while
\* buffers 1 and 2 wait Ready
C18_Witness ==
    /\ pc = "release"
    /\ buffer_idx = 0
    /\ ~force_idr
    /\ state[1] = Ready /\ state[2] = Ready
    /\ frames_processed = U64Untracked

\* run_bridge returns or unwinds: the ring is dropped
RingDropped == pc # "done" /\ pc' = "done"

\* C19: nothing ever takes shutdown back to 0; when the ring is dropped, on
\* whichever exit path, shutdown is 1 afterwards and no buffer state, no pixel,
\* no metadata and no other header field has changed, so that a shutdown()
\* on a ring whose flag is already 1 leaves the ring as it was.
C19_ShutdownPersistent ==
    [][/\ header.shutdown # 0 => header'.shutdown # 0
       /\ RingDropped =>
             /\ header'.shutdown = 1
             /\ \A f \in DOMAIN header : f # "shutdown" => header'[f] = header[f]
             /\ UNCHANGED <<state, pix, meta>>
             /\ header.shutdown = 1 => header' = header
       /\ pc = "done" => header.shutdown = 1]_vars

\* the producer had set the flag, the loop has flushed and the ring has been
\* dropped with frames still in it
C19_Witness ==
    /\ pc = "done"
    /\ flush_log.called
    /\ header.shutdown = 1
    /\ state[0] = Ready /\ state[1] = Writing

\* C20: whatever encode_frame returns for an acquired frame, the loop goes on
\* to release_frame with the same buffer index, which empties that buffer,
\* before it calls try_acquire_frame again; an encoder error does not end the
\* loop; the loop never holds more than one buffer in Encoding.
C20_AlwaysReleased ==
    [][/\ (pc = "encode" /\ pc' # pc) =>
             /\ pc' = "release"
             /\ buffer_idx' = buffer_idx
             /\ last_result' \in {"Some", "None", "Err"}
       /\ (pc = "release" /\ pc' # pc) =>
             /\ pc' = "drop_check"
             /\ state[buffer_idx] = Encoding
             /\ state'[buffer_idx] = Empty
       /\ pc' = "acquire" => \A i \in Buffers : state'[i] # Encoding
       /\ \A i, j \in Buffers :
             (state'[i] = Encoding /\ state'[j] = Encoding) => i = j
       /\ (\E i \in Buffers : state'[i] = Encoding) => pc' \in {"encode", "release"}]_vars

\* the second frame's encode has failed and the loop is about to release it
C20_Witness ==
    /\ pc = "release"
    /\ last_result = "Err"
    /\ buffer_idx \in Buffers
    /\ frames_processed = <<1, 0, 0, 0>>

\* the loop's encode_frame call and the match on its result
EncodeCalled == pc = "encode" /\ pc' = "release"

\* C21: once any of the three triggers (a ClientConnected or a RequestIDR
\* handled by the loop, an acquired frame with is_idr non-zero) has raised an
\* IDR demand, every encode_frame call is passed force_idr = true until an
\* encoder output has been consumed.
C21_ThreeTriggersLatch ==
    [][(EncodeCalled /\ idr_demand # "none") => idr_passed' = "forced"]_vars

\* C21 as the loop has it: the demand of a handled ClientConnected or
\* RequestIDR is passed as force_idr = true to every encode_frame call until an
\* encoder output has been consumed, and is kept across calls that return None
\* or an error; a frame whose is_idr is non-zero has force_idr = true passed
\* on its own call.
C21_TwoTriggersLatch ==
    [][/\ (EncodeCalled /\ idr_demand = "latch") => idr_passed' = "forced"
       /\ (EncodeCalled /\ idr_demand = "latch" /\ last_result' \in {"None", "Err"})
             => force_idr'
       /\ (EncodeCalled /\ frame_copy.is_idr # 0) => idr_passed' = "forced"]_vars

\* after a keyframe had been consumed, an event has asked for an IDR again:
\* the call for a frame without the hint was passed force_idr = true, it
\* failed, and the demand is still there
C21_Witness ==
    /\ pc = "release"
    /\ keyframes_out = 1
    /\ last_result = "Err"
    /\ idr_passed = "forced"
    /\ frame_copy.is_idr = 0
    /\ idr_demand = "latch"
    /\ force_idr

\* C23: an output forwarded by the loop carries the capture timestamp of the
\* frame it was encoded from: some buffer holds the pixels the output came
\* from together with the timestamp_ns given to send_video_nal.
C23_TimestampOfSource ==
    nal_sent.phase = "loop" =>
       \E i \in Buffers :
          /\ pix[i] = nal_sent.frame
          /\ meta[i].timestamp_ns = nal_sent.timestamp

\* the dimension invariant of a Ready buffer, for the acquired frame
DimensionsInvariant ==
    /\ frame_copy.width <= header.config_width
    /\ frame_copy.height <= header.config_height
    /\ frame_size(frame_copy) <= MAX_FRAME_SIZE

\* C22: for an acquired frame within the configured dimensions, every
\* iteration of the conversion reads only indices inside the slice of
\* height * stride bytes, and writes only indices inside the Y plane of W * H
\* and the U and V planes of (W * H) / 4 bytes.
C22_ConversionInBounds ==
    DimensionsInvariant =>
       /\ convert_loop.read_to < frame_size(frame_copy)
       /\ convert_loop.y_at < y_size(header.config_width, header.config_height)
       /\ convert_loop.uv_at < uv_size(header.config_width, header.config_height)

====
